---------------------------- MODULE Spec2Model ----------------------------
(***************************************************************************)
(* Model of the retrieval-augmented news pipeline:                         *)
(*   - the query agent (src/src/agent.py): NewsAnalystAgent.answer with    *)
(*     its three tools and the interactive loop that calls it;             *)
(*   - the ingestion pipeline (src/src/main.py: run_pipeline) with the     *)
(*     sampler (src/src/data/data_loader.py) and the enrichment producers  *)
(*     (src/src/nlp).                                                      *)
(* The document store (Firestore) and the vector index are the shared      *)
(* state; the external services answer or raise nondeterministically.      *)
(* Specifications: AgentSpec (the agent's loop), ConcurrentSpec (two       *)
(* callers of answer()), IngestSpec (one run of the pipeline), RerunSpec   *)
(* (two runs), OrderSpec (one run, the services treating each article in   *)
(* one way), SamplerSpec (the sampler alone), ProgramsSpec (either         *)
(* program).                                                               *)
(***************************************************************************)
EXTENDS Integers, Sequences, FiniteSets, TLC

\* Article ids are 1..MaxId (the ids the source dataset assigns).
MaxId == 2
\* Faults injected in one behaviour of the ingestion pipeline: clients that
\* failed to initialise and external calls that fail.
MaxFaults == 2
\* max_words of run_pipeline's call of load_and_sample_data.
MaxWords == 1000
\* top_k of the agent: the number of neighbours requested per query
\* (the default of NewsAnalystAgent.__init__).
TopK == 3

Ids == 1..MaxId

VARIABLES
    \* ---- process-wide clients (src/src/core/connections.py)
    dbLoaded,       \* db is a Firestore client (TRUE) or None (FALSE)
    modelsLoaded,   \* generative_model / embedding_model are loaded or None
    indexLoaded,    \* my_index / index_endpoint are connected or None
    spacyLoaded,    \* nlp_spacy is loaded or None
    \* ---- shared storage
    store,          \* document store: article id -> record (field -> value)
    index,          \* vector index: the set of datapoint ids upserted
    \* ---- the agent and its interactive loop
    pc,             \* position of the agent loop
    query,          \* the query being answered
    article_ids,    \* result of _find_relevant_articles
    cursor,         \* position of the for loop of _get_article_context
    context,        \* context_bundle being assembled
    result,         \* the string answer() returned ("" while none)
    outcome,        \* "none" | "returned" | "raised": how answer() ended
    raisedAt,       \* the call whose exception left answer()
    embedCalls,     \* calls of embedding_model.get_embeddings in this query
    searchCalls,    \* calls of index_endpoint.find_neighbors in this query
    storeCalls,     \* calls on the document store in this query
    genCalls,       \* calls of generative_model.generate_content in this query
    genOutcome,     \* how the generative model answered in this query ("none": not asked)
    line,           \* the line input("You: ") returned last ("" before the first)
    response,       \* the request and the answer of find_neighbors in this query
    \* ---- the ingestion pipeline (run_pipeline)
    pool,           \* the source dataset: article id -> words of its document
    nSamples,       \* args.samples
    mode,           \* "single": one run; "twice": a second run over the same sample
    run,            \* the run in progress: 1 or 2
    ipc,            \* position of run_pipeline
    sample,         \* df_to_process: the sampled article ids, in order
    row,            \* position of the for loop over the sample
    cur,            \* the enrichment outputs of the row in progress
    failed,         \* the producers that failed for the row in progress
    embedding,      \* the embedding of the row in progress (NoValue: none)
    faults,         \* faults so far: clients not loaded, external calls that failed
    setCalls,       \* calls of firestore_doc_ref.set in this run
    upsertCalls,    \* calls of my_index.upsert_datapoints in this run
    writtenIds,     \* ids whose record was written in this run
    upsertedIds,    \* ids whose vector was upserted in this run
    skippedIds,     \* ids skipped in this run because their embedding failed
    store0,         \* the document store when this run started
    index0,         \* the vector index when this run started
    lastSet,        \* id -> the dictionary of the latest set() for that id
    memo,           \* id -> what the producers did for it in run 1 (mode "twice")
    rowCalls,       \* external operation -> calls issued for the row begun last
    storeAfterRun1, \* the document store when run 1 was over (mode "twice")
    \* ---- a second caller of answer() and the services' fixed answers
    peer,           \* the locals of the caller that is not running now
    svc,            \* query -> what the services answer for it (when they are deterministic)
    \* ---- the sampler called on its own
    smp,            \* the arguments of load_and_sample_data and what its calls returned
    \* ---- one run over services that treat each article in one way
    rowSvc          \* article id -> how its producers, embedding, set and upsert end

agentVars == <<pc, query, article_ids, cursor, context, result, outcome,
               raisedAt, embedCalls, searchCalls, storeCalls, genCalls,
               genOutcome, line, response>>
clientVars == <<dbLoaded, modelsLoaded, indexLoaded, spacyLoaded>>
storageVars == <<store, index>>
ingestVars == <<pool, nSamples, mode, run, ipc, sample, row, cur, failed,
                embedding, faults, setCalls, upsertCalls, writtenIds,
                upsertedIds, skippedIds, store0, index0, lastSet, memo,
                storeAfterRun1, rowCalls>>
auxVars == <<peer, svc, smp, rowSvc>>
vars == <<clientVars, storageVars, agentVars, ingestVars, auxVars>>

(***************************************************************************)
(* Values.  A field value is a record [kind, of]: what the value is and    *)
(* the article it was produced from (0: none).                             *)
(***************************************************************************)
Val(kind, id) == [kind |-> kind, of |-> id, rev |-> "current"]

\* The value an earlier pass of the producers left for the same article.
OldVal(kind, id) == [kind |-> kind, of |-> id, rev |-> "earlier"]

\* None / not produced.
NoValue == [kind |-> "None", of |-> 0, rev |-> "current"]

EmptyStr == Val("empty_str", 0)
EmptyMap == Val("empty_map", 0)
EmptyList == Val("empty_list", 0)

\* The five enrichment producers, named by the field each fills.
Producers == {"gemini_summary", "textrank_summary", "vertex_ai_extraction",
              "nl_api_entities", "spacy_entities"}

\* What a producer returns when it fails: summarize_gemini and
\* summarize_textrank return "", extract_entities_vertex_ai returns {},
\* extract_entities_nl_api and extract_entities_spacy return [].
ProducerDefault(p) ==
    CASE p \in {"gemini_summary", "textrank_summary"} -> EmptyStr
      [] p = "vertex_ai_extraction" -> EmptyMap
      [] OTHER -> EmptyList

\* The producers that cannot succeed: generative_model is None (the call
\* raises inside the producer's try), nlp_spacy is None (the producer's guard).
ForcedFailures(models, spacy) ==
    (IF models THEN {} ELSE {"gemini_summary", "vertex_ai_extraction"})
    \cup (IF spacy THEN {} ELSE {"textrank_summary", "spacy_entities"})

\* The five producer calls for one document: each returns its value, or its
\* default when it is in fs, the producers that fail.
RunProducers(id, fs) ==
    [p \in Producers |-> IF p \in fs THEN ProducerDefault(p) ELSE Val(p, id)]

\* format_nl_api_entities / format_spacy_entities: a list comprehension over
\* the entities; the empty list gives the empty list.
FormatEntities(v) ==
    IF v = EmptyList THEN EmptyList ELSE [v EXCEPT !.kind = "formatted"]

\* The fields of the dictionary run_pipeline hands to Firestore's set().
RecordFields == {"gcs_uri", "document_id_in_file", "reference_summary"} \cup Producers

\* The dictionary run_pipeline hands to set() for document id with the
\* enrichment outputs c.
BuildRecord(id, c) ==
    [f \in RecordFields |->
        CASE f = "gcs_uri" -> Val("gs://bucket/xsum/train.jsonl", 0)
          [] f = "document_id_in_file" -> Val("doc_id", id)
          [] f = "reference_summary" -> Val("summary", id)
          [] f \in {"nl_api_entities", "spacy_entities"} -> FormatEntities(c[f])
          [] OTHER -> c[f]]

\* The record of an article whose producers all succeeded.
FullRecord(id) == BuildRecord(id, RunProducers(id, {}))

\* The record an earlier pass, with other producer outputs, left for id.
OldRecord(id) == [f \in RecordFields |-> OldVal(f, id)]

\* A document without any of the fields the agent reads.
BareRecord == [f \in {} |-> EmptyStr]

\* dict.get(key, default)
DictGet(data, key, default) == IF key \in DOMAIN data THEN data[key] ELSE default

\* str(x): a string is returned as it is, a mapping is rendered as text.
PyStr(v) ==
    CASE v.kind = "vertex_ai_extraction" -> [v EXCEPT !.kind = "str(vertex_ai_extraction)"]
      [] v.kind = "empty_map" -> [v EXCEPT !.kind = "{}"]
      [] OTHER -> v

NoSummary == Val("No summary available.", 0)
NoKeyInfo == Val("No key information extracted.", 0)

(***************************************************************************)
(* The strings answer() returns.                                           *)
(***************************************************************************)
MsgNoArticles ==
    "I'm sorry, I could not find any relevant news articles for your query."
MsgNoContent ==
    "I found some article references, but I was unable to retrieve their content from the database."
MsgGenError == "There was an error while generating the final answer."
GeneratedText == "response.text"

Queries == {"What happened in City X?", "Who won?"}

\* The lines the user may type at the prompt: queries, blank lines, the
\* commands in several cases, and a command with a leading blank.
InputLines == Queries \cup {"", "   ", "quit", "EXIT", " quit"}

\* str.strip() on the lines above.
Strip(s) ==
    CASE s = "   " -> ""
      [] s = " quit" -> "quit"
      [] OTHER -> s

\* str.lower() on the lines above.
Lower(s) ==
    CASE s = "EXIT" -> "exit"
      [] s = "What happened in City X?" -> "what happened in city x?"
      [] s = "Who won?" -> "who won?"
      [] OTHER -> s

\* Mutant: the test of the line without strip().
IsBlank_NoStrip(s) == s = ""

\* main(): "if not query.strip()"
IsBlank(s) == Strip(s) = ""

\* main(): "if query.lower() in ['quit', 'exit']"
IsQuit(s) == Lower(s) \in {"quit", "exit"}

\* No call of find_neighbors yet in this query.
NoResponse == [num_neighbors |-> 0, lists |-> <<>>]

\* What find_neighbors(queries=[e], num_neighbors=k) returns when the index
\* ranks the ids as in ids: one list per query, nearest neighbour first.
FindNeighborsResponse(ids, k) ==
    [num_neighbors |-> k,
     lists |-> << [j \in 1..Len(ids) |-> [id |-> ids[j], distance |-> j]] >>]

\* Mutant: the ids of the neighbours with repeated ids dropped.
NeighborIds_Deduplicated(resp) ==
    LET l == resp.lists[1]
        f[j \in 0..Len(l)] ==
            IF j = 0 THEN <<>>
            ELSE IF \E i \in 1..(j - 1) : l[i].id = l[j].id
                    THEN f[j - 1]
                    ELSE Append(f[j - 1], l[j].id)
    IN f[Len(l)]

\* article_ids = [neighbor.id for neighbor in response[0]]
NeighborIds(resp) == [j \in 1..Len(resp.lists[1]) |-> resp.lists[1][j].id]

\* Sequences over S of length at most n.
SeqUpTo(S, n) == UNION {[1..k -> S] : k \in 0..n}

\* What the vector index may answer for num_neighbors = k: at most k of the
\* datapoint ids it holds, in its rank order.
NeighborLists(ix, k) == SeqUpTo(ix, k)

\* The contents the document store may have when the agent runs.
AgentStores ==
    UNION {{st \in [S -> {FullRecord(id) : id \in Ids} \cup {BareRecord}] :
               \A id \in S : st[id] \in {FullRecord(id), BareRecord}} : S \in SUBSET Ids}

(***************************************************************************)
(* Tool 2, one iteration of the for loop: the entry appended for a         *)
(* document that exists.                                                   *)
(***************************************************************************)
ContextEntry(doc_id, data) ==
    [id |-> doc_id,
     summary |-> DictGet(data, "gemini_summary", NoSummary),
     key_info |-> PyStr(DictGet(data, "vertex_ai_extraction", NoKeyInfo))]

\* Mutant: the entry inserted at the front of the bundle.
BundleAppend_Prepend(bundle, entry) == <<entry>> \o bundle

\* context_bundle.append(entry)
BundleAppend(bundle, entry) == Append(bundle, entry)

\* doc.exists of docs_ref.document(doc_id).get()
DocExists(st, doc_id) == doc_id \in DOMAIN st

(***************************************************************************)
(* The interactive loop and answer().                                      *)
(***************************************************************************)
AgentInit ==
    /\ pc = "input"
    /\ query = ""
    /\ article_ids = <<>>
    /\ cursor = 1
    /\ context = <<>>
    /\ result = ""
    /\ outcome = "none"
    /\ raisedAt = "none"
    /\ embedCalls = 0
    /\ searchCalls = 0
    /\ storeCalls = 0
    /\ genCalls = 0
    /\ genOutcome = "none"
    /\ line = ""
    /\ response = NoResponse

\* An exception leaves answer(): nothing in answer() or its tools 1 and 2 catches it.
Raise(where) ==
    /\ pc' = "raised"
    /\ outcome' = "raised"
    /\ raisedAt' = where
    /\ result' = ""

\* answer() returns the string s.
Return(s) ==
    /\ pc' = "returned"
    /\ outcome' = "returned"
    /\ raisedAt' = "none"
    /\ result' = s

\* main(): query = input("You: "); the line is neither blank nor a command:
\* final_answer = agent.answer(query)
MainInput(q) ==
    /\ pc = "input"
    /\ ~IsBlank(q)
    /\ ~IsQuit(q)
    /\ line' = q
    /\ response' = NoResponse
    /\ pc' = "embed"
    /\ query' = q
    /\ article_ids' = <<>>
    /\ cursor' = 1
    /\ context' = <<>>
    /\ result' = ""
    /\ outcome' = "none"
    /\ raisedAt' = "none"
    /\ embedCalls' = 0
    /\ searchCalls' = 0
    /\ storeCalls' = 0
    /\ genCalls' = 0
    /\ genOutcome' = "none"
    /\ UNCHANGED <<clientVars, storageVars, ingestVars, auxVars>>

\* Tool 1, first call: embedding_model.get_embeddings([query])[0].values
FindEmbed(ok) ==
    /\ pc = "embed"
    /\ embedCalls' = embedCalls + (IF modelsLoaded THEN 1 ELSE 0)
    /\ IF modelsLoaded /\ ok
          THEN pc' = "search" /\ UNCHANGED <<result, outcome, raisedAt>>
          ELSE Raise("get_embeddings")
    /\ UNCHANGED <<line, response, query, article_ids, cursor, context, searchCalls, storeCalls,
                   genCalls, genOutcome, clientVars, storageVars, ingestVars, auxVars>>

\* Mutant: answer() without its test of the retrieved ids.
AfterRetrieval_NoEarlyReturn(ids) == "context"

\* answer(): "if not article_ids: return ..." after tool 1.
AfterRetrieval(ids) == IF ids = <<>> THEN "return" ELSE "context"

\* Tool 1, second call: index_endpoint.find_neighbors(..., num_neighbors=top_k),
\* then answer()'s test of the ids.
FindNeighbors(ok, neighbors) ==
    /\ pc = "search"
    /\ searchCalls' = searchCalls + (IF indexLoaded THEN 1 ELSE 0)
    /\ IF indexLoaded /\ ok
          THEN LET resp == FindNeighborsResponse(neighbors, TopK) IN
               /\ response' = resp
               /\ article_ids' = NeighborIds(resp)
               /\ IF AfterRetrieval(NeighborIds(resp)) = "return"
                     THEN Return(MsgNoArticles)
                     ELSE pc' = "context" /\ UNCHANGED <<result, outcome, raisedAt>>
          ELSE /\ Raise("find_neighbors")
               /\ UNCHANGED <<article_ids, response>>
    /\ UNCHANGED <<line, query, cursor, context, embedCalls, storeCalls, genCalls,
                   genOutcome, clientVars, storageVars, ingestVars, auxVars>>

\* Tool 2: docs_ref = db.collection(settings.firestore_collection)
GetContextStart ==
    /\ pc = "context"
    /\ cursor' = 1
    /\ context' = <<>>
    /\ storeCalls' = storeCalls + (IF dbLoaded THEN 1 ELSE 0)
    /\ IF dbLoaded
          THEN pc' = "lookup" /\ UNCHANGED <<result, outcome, raisedAt>>
          ELSE Raise("db.collection")
    /\ UNCHANGED <<line, response, query, article_ids, embedCalls, searchCalls, genCalls,
                   genOutcome, clientVars, storageVars, ingestVars, auxVars>>

\* Tool 2: one iteration of "for doc_id in article_ids".
GetContextLookup(ok) ==
    /\ pc = "lookup"
    /\ cursor <= Len(article_ids)
    /\ storeCalls' = storeCalls + 1
    /\ LET doc_id == article_ids[cursor] IN
       IF ok
          THEN /\ cursor' = cursor + 1
               /\ context' = IF DocExists(store, doc_id)
                                THEN BundleAppend(context, ContextEntry(doc_id, store[doc_id]))
                                ELSE context
               /\ UNCHANGED <<pc, result, outcome, raisedAt>>
          ELSE /\ Raise("document.get")
               /\ UNCHANGED <<cursor, context>>
    /\ UNCHANGED <<line, response, query, article_ids, embedCalls, searchCalls, genCalls,
                   genOutcome, clientVars, storageVars, ingestVars, auxVars>>

\* Mutant: answer() without its test of the assembled context.
AfterContext_NoEarlyReturn(ctx) == "synth"

\* answer(): "if not context: return ..." after tool 2.
AfterContext(ctx) == IF ctx = <<>> THEN "return" ELSE "synth"

\* Tool 2 returns context_bundle; answer() tests it.
GetContextReturn ==
    /\ pc = "lookup"
    /\ cursor > Len(article_ids)
    /\ IF AfterContext(context) = "return"
          THEN Return(MsgNoContent)
          ELSE pc' = "synth" /\ UNCHANGED <<result, outcome, raisedAt>>
    /\ UNCHANGED <<line, response, query, article_ids, cursor, context, embedCalls, searchCalls,
                   storeCalls, genCalls, genOutcome, clientVars, storageVars, ingestVars, auxVars>>

\* How the generative model may answer: generate_content returns and
\* response.text reads, generate_content raises, or reading response.text
\* raises (a blocked or empty candidate).
GenOutcomes == {"ok", "generate_raises", "text_raises"}

\* Mutant: response.text read after the try block, so that its exception
\* leaves the synthesizer.
SynthesizeEnds_TextOutsideTry(gen) ==
    CASE gen = "ok" -> [how |-> "returned", text |-> GeneratedText]
      [] gen = "text_raises" -> [how |-> "raised", text |-> ""]
      [] OTHER -> [how |-> "returned", text |-> MsgGenError]

\* Tool 3, the try/except around generate_content and response.text: how
\* _synthesize_news_report ends for an outcome of the model ("model_none":
\* generative_model is None and the attribute access raises inside the try).
SynthesizeEnds(gen) ==
    IF gen = "ok"
       THEN [how |-> "returned", text |-> GeneratedText]
       ELSE [how |-> "returned", text |-> MsgGenError]

\* Mutant: answer() putting its own message in place of the synthesizer's
\* fallback.
AnswerReturns_OwnApology(final_answer) ==
    IF final_answer = MsgGenError THEN MsgNoContent ELSE final_answer

\* answer(): final_answer = self._synthesize_news_report(...); return final_answer
AnswerReturns(final_answer) == final_answer

\* Tool 3 and the end of answer().
Synthesize(gen) ==
    /\ pc = "synth"
    /\ genCalls' = genCalls + (IF modelsLoaded THEN 1 ELSE 0)
    /\ LET g == IF modelsLoaded THEN gen ELSE "model_none"
           e == SynthesizeEnds(g)
       IN /\ genOutcome' = g
          /\ IF e.how = "returned"
                THEN Return(AnswerReturns(e.text))
                ELSE Raise("generate_content")
    /\ UNCHANGED <<line, response, query, article_ids, cursor, context, embedCalls, searchCalls,
                   storeCalls, clientVars, storageVars, ingestVars, auxVars>>

\* main(): print(f"\nAgent:\n{final_answer}\n"), next turn of the while loop.
MainPrint ==
    /\ pc = "returned"
    /\ pc' = "input"
    /\ UNCHANGED <<line, response, query, article_ids, cursor, context, result, outcome, raisedAt,
                   embedCalls, searchCalls, storeCalls, genCalls, genOutcome,
                   clientVars, storageVars, ingestVars, auxVars>>

\* main(): except Exception as e: print(...); logger.error(...), next turn.
MainCatch ==
    /\ pc = "raised"
    /\ pc' = "input"
    /\ UNCHANGED <<line, response, query, article_ids, cursor, context, result, outcome, raisedAt,
                   embedCalls, searchCalls, storeCalls, genCalls, genOutcome,
                   clientVars, storageVars, ingestVars, auxVars>>

\* The steps of answer(): between its call and its return or exception.
InAnswer == {"embed", "search", "context", "lookup", "synth"}

\* main(): a blank line: continue.
MainBlank(l) ==
    /\ pc = "input"
    /\ IsBlank(l)
    /\ line' = l
    /\ UNCHANGED <<pc, response, query, article_ids, cursor, context, result, outcome,
                   raisedAt, embedCalls, searchCalls, storeCalls, genCalls, genOutcome,
                   clientVars, storageVars, ingestVars, auxVars>>

\* main(): 'quit' or 'exit' in any case: print("Agent: Goodbye!"); break
MainQuit(l) ==
    /\ pc = "input"
    /\ ~IsBlank(l)
    /\ IsQuit(l)
    /\ line' = l
    /\ pc' = "goodbye"
    /\ UNCHANGED <<response, query, article_ids, cursor, context, result, outcome,
                   raisedAt, embedCalls, searchCalls, storeCalls, genCalls, genOutcome,
                   clientVars, storageVars, ingestVars, auxVars>>

\* main(): except (KeyboardInterrupt, EOFError): print("Agent: Goodbye!"); break.
\* The end of input is met at the prompt; the interrupt at the prompt, inside
\* answer() (which it leaves as an exception) or while printing.
MainInterrupt ==
    /\ pc \notin {"goodbye", "interrupted"}
    /\ pc' = "interrupted"
    /\ IF pc \in InAnswer
          THEN outcome' = "raised" /\ raisedAt' = "KeyboardInterrupt" /\ result' = ""
          ELSE UNCHANGED <<outcome, raisedAt, result>>
    /\ UNCHANGED <<line, response, query, article_ids, cursor, context, embedCalls,
                   searchCalls, storeCalls, genCalls, genOutcome,
                   clientVars, storageVars, ingestVars, auxVars>>

(***************************************************************************)
(* Two callers of answer() on one agent.  The locals of answer() and of    *)
(* its tools belong to the call; the agent object holds top_k only.        *)
(***************************************************************************)

\* The locals of the caller that is running.
Locals ==
    [pc |-> pc, query |-> query, article_ids |-> article_ids, cursor |-> cursor,
     context |-> context, result |-> result, outcome |-> outcome,
     raisedAt |-> raisedAt, embedCalls |-> embedCalls, searchCalls |-> searchCalls,
     storeCalls |-> storeCalls, genCalls |-> genCalls, genOutcome |-> genOutcome,
     line |-> line, response |-> response]

\* The locals of a caller that has not called yet.
NewCaller ==
    [pc |-> "input", query |-> "", article_ids |-> <<>>, cursor |-> 1,
     context |-> <<>>, result |-> "", outcome |-> "none", raisedAt |-> "none",
     embedCalls |-> 0, searchCalls |-> 0, storeCalls |-> 0, genCalls |-> 0,
     genOutcome |-> "none", line |-> "", response |-> NoResponse]

\* Mutant: article_ids kept on the agent object, which the callers share.
Resume_SharedIds(saved, running) ==
    [saved EXCEPT !.article_ids = running.article_ids]

\* What a caller finds when it runs again: its locals as it left them.
Resume(saved, running) == saved

\* The other caller runs.
Switch ==
    /\ peer # << >>
    /\ peer' = Locals
    /\ LET r == Resume(peer, Locals) IN
       /\ pc' = r.pc
       /\ query' = r.query
       /\ article_ids' = r.article_ids
       /\ cursor' = r.cursor
       /\ context' = r.context
       /\ result' = r.result
       /\ outcome' = r.outcome
       /\ raisedAt' = r.raisedAt
       /\ embedCalls' = r.embedCalls
       /\ searchCalls' = r.searchCalls
       /\ storeCalls' = r.storeCalls
       /\ genCalls' = r.genCalls
       /\ genOutcome' = r.genOutcome
       /\ line' = r.line
       /\ response' = r.response
    /\ UNCHANGED <<svc, smp, rowSvc, clientVars, storageVars, ingestVars>>

\* What deterministic services answer for one query.  An answer that is
\* never asked for has one value: the neighbours when the embedding or the
\* search fails, the generation when no neighbour is in the store.
ServiceAnswers(ix, st) ==
    {a \in [embed_ok : BOOLEAN, search_ok : BOOLEAN,
            neighbors : NeighborLists(ix, TopK), gen : GenOutcomes] :
        /\ ~a.embed_ok => a.search_ok
        /\ ~(a.embed_ok /\ a.search_ok) => a.neighbors = <<>>
        /\ (\A j \in 1..Len(a.neighbors) : ~DocExists(st, a.neighbors[j])) => a.gen = "ok"}

\* The steps of two callers, the services answering each query in one way.
\* The document store answers every get.
ConcurrentNext ==
    \/ \E q \in Queries : MainInput(q)
    \/ pc = "embed" /\ FindEmbed(svc[query].embed_ok)
    \/ pc = "search" /\ FindNeighbors(svc[query].search_ok, svc[query].neighbors)
    \/ GetContextStart
    \/ GetContextLookup(TRUE)
    \/ GetContextReturn
    \/ pc = "synth" /\ Synthesize(svc[query].gen)
    \/ MainPrint
    \/ MainCatch
    \/ Switch

AgentNext ==
    \/ \E q \in InputLines : MainInput(q)
    \/ \E l \in InputLines : MainBlank(l)
    \/ \E l \in InputLines : MainQuit(l)
    \/ MainInterrupt
    \/ \E ok \in BOOLEAN : FindEmbed(ok)
    \/ \E ok \in BOOLEAN, n \in NeighborLists(index, TopK) : FindNeighbors(ok, n)
    \/ GetContextStart
    \/ \E ok \in BOOLEAN : GetContextLookup(ok)
    \/ GetContextReturn
    \/ \E gen \in GenOutcomes : Synthesize(gen)
    \/ MainPrint
    \/ MainCatch

(***************************************************************************)
(* The sampler (src/src/data/data_loader.py).                              *)
(***************************************************************************)

\* The words a document of the source may have.
WordCounts == {MaxWords - 1, MaxWords}

\* mask = full_df[text_column].str.split().str.len() < max_words
Filtered(pl) == {id \in DOMAIN pl : pl[id] < MaxWords}

\* The orderings of n distinct elements of S.
Arrangements(S, n) ==
    {r \in [1..n -> S] : \A a, b \in 1..n : a # b => r[a] # r[b]}

\* Mutant: the first rows of the pool, however few, and no error.
LoadAndSampleData_Truncating(pl, n) ==
    LET have == Cardinality(Filtered(pl))
    IN {[raised |-> FALSE, rows |-> r] :
           r \in Arrangements(Filtered(pl), IF n <= have THEN n ELSE have)}

\* load_and_sample_data(n_samples, max_words=MaxWords) once the blob is
\* downloaded: the ValueError when the filtered pool is too small, else one of
\* the samples full_df.sample(n=n_samples, random_state=42) may draw.
LoadAndSampleData(pl, n) ==
    IF Cardinality(Filtered(pl)) < n
       THEN {[raised |-> TRUE, rows |-> <<>>]}
       ELSE {[raised |-> FALSE, rows |-> r] : r \in Arrangements(Filtered(pl), n)}

\* random_state of load_and_sample_data.
RandomState == 42

\* The orders a generator may put the rows of the source in.
RowOrders == Arrangements(Ids, MaxId)

\* The states a random generator may be in: seeded with random_state, or
\* the process-wide generator after 1 or 2 draws.
RngStates == {1, 2, RandomState}

\* if max_words is not None: the rows with fewer than max_words words
\* (max_words: <<>> for None, <<m>> for m).
FilteredBy(pl, max_words) ==
    IF max_words = <<>> THEN DOMAIN pl ELSE {id \in DOMAIN pl : pl[id] < max_words[1]}

\* The first n rows of S in the order given.
TakeSample(S, n, order) ==
    LET InS(id) == id \in S
    IN SubSeq(SelectSeq(order, InS), 1, n)

\* Mutant: sample() drawing from the process-wide generator, which has moved
\* on since the last call.
RandomSource_GlobalState(random_state, call) == call

\* full_df.sample(n=n_samples, random_state=random_state): a generator seeded
\* afresh with random_state at each call.
RandomSource(random_state, call) == random_state

\* load_and_sample_data(n_samples, max_words, random_state) at its call-th call
\* on the source pl; dl: the download succeeds; rng: generator state -> the
\* order it puts the rows in.  Exceptions are logged and raised again.
CallLoadAndSample(pl, n, max_words, dl, rng, call) ==
    IF ~dl
       THEN [raised |-> "download", rows |-> <<>>]
       ELSE IF Cardinality(FilteredBy(pl, max_words)) < n
               THEN [raised |-> "ValueError", rows |-> <<>>]
               ELSE [raised |-> "no",
                     rows |-> TakeSample(FilteredBy(pl, max_words), n,
                                         rng[RandomSource(RandomState, call)])]

\* load_and_sample_data is called (again) with the same arguments.
SamplerCall ==
    /\ smp # << >>
    /\ Len(smp.out) < 2
    /\ smp' = [smp EXCEPT !.out =
                 Append(@, CallLoadAndSample(pool, nSamples, smp.max_words, smp.dl,
                                             smp.rng, Len(smp.out) + 1))]
    /\ UNCHANGED <<peer, svc, rowSvc, clientVars, storageVars, agentVars, ingestVars>>

(***************************************************************************)
(* run_pipeline (src/src/main.py).                                         *)
(***************************************************************************)
NoCur == [p \in Producers |-> NoValue]

\* The external operations of one row: the five producers, the embedding,
\* the document-store write and the vector upsert.
RowOps == Producers \cup {"get_embeddings", "set", "upsert_datapoints"}

\* No call issued.
NoCalls == [op \in RowOps |-> 0]

\* One more call of op, when its client is there to be called.
Issue(calls, op, loaded) == [calls EXCEPT ![op] = @ + (IF loaded THEN 1 ELSE 0)]

\* The state of a pipeline that is not running (the agent runs alone).
IngestIdle ==
    /\ pool = [id \in Ids |-> MaxWords - 1]
    /\ nSamples = 1
    /\ mode = "single"
    /\ run = 1
    /\ ipc = "idle"
    /\ sample = <<>>
    /\ row = 1
    /\ cur = NoCur
    /\ failed = {}
    /\ embedding = NoValue
    /\ faults = 0
    /\ setCalls = 0
    /\ upsertCalls = 0
    /\ writtenIds = {}
    /\ upsertedIds = {}
    /\ skippedIds = {}
    /\ store0 = store
    /\ index0 = index
    /\ lastSet = store
    /\ memo = << >>
    /\ storeAfterRun1 = << >>
    /\ rowCalls = NoCalls

\* The stores an ingestion run may start from: empty, or holding the records
\* of an earlier pass.
IngestStores == {<< >>, [id \in Ids |-> OldRecord(id)]}

\* The clients that failed to initialise.
Unloaded ==
    (IF dbLoaded THEN 0 ELSE 1) + (IF modelsLoaded THEN 0 ELSE 1)
    + (IF indexLoaded THEN 0 ELSE 1) + (IF spacyLoaded THEN 0 ELSE 1)

\* run_pipeline(args) is called with args.samples = nSamples.
IngestInit(m) ==
    /\ pool \in [Ids -> WordCounts]
    /\ nSamples \in 1..MaxId
    /\ mode = m
    /\ run = 1
    /\ ipc = "start"
    /\ sample = <<>>
    /\ row = 1
    /\ cur = NoCur
    /\ failed = {}
    /\ embedding = NoValue
    /\ faults = Unloaded
    /\ faults <= MaxFaults
    /\ setCalls = 0
    /\ upsertCalls = 0
    /\ writtenIds = {}
    /\ upsertedIds = {}
    /\ skippedIds = {}
    /\ store0 = store
    /\ index0 = index
    /\ lastSet = store
    /\ memo = << >>
    /\ storeAfterRun1 = << >>
    /\ rowCalls = NoCalls

\* doc_id = str(row['id']) of the row in progress.
DocId == sample[row]

\* The end of one turn of the for loop: the next row, or the end of the run.
NextRow ==
    /\ IF row < Len(sample)
          THEN ipc' = "enrich" /\ row' = row + 1
          ELSE ipc' = "done" /\ UNCHANGED row
    /\ cur' = NoCur
    /\ failed' = {}
    /\ embedding' = NoValue

\* An exception leaves run_pipeline: the for loop has no handler for it.
Crash ==
    /\ ipc' = "crashed"
    /\ UNCHANGED <<row, cur, failed, embedding>>

\* Step 2: df_to_process = load_and_sample_data(...), with its try/except.
\* dl: the download of the blob succeeds.  A second run draws the sample of
\* the first: same source, same n_samples, same random_state.
RunPipelineLoad(dl, out) ==
    /\ ipc = "start"
    /\ dl \/ faults < MaxFaults
    /\ out \in LoadAndSampleData(pool, nSamples)
    /\ (run = 2 /\ ~out.raised) => out.rows = sample
    /\ faults' = faults + (IF dl THEN 0 ELSE 1)
    /\ IF dl /\ ~out.raised /\ out.rows # <<>>
          THEN /\ sample' = out.rows
               /\ ipc' = "enrich"
          ELSE /\ ipc' = IF dl /\ ~out.raised THEN "done" ELSE "aborted"
               /\ UNCHANGED sample
    /\ row' = 1
    /\ UNCHANGED <<rowCalls, pool, nSamples, mode, run, cur, failed, embedding, setCalls,
                   upsertCalls, writtenIds, upsertedIds, skippedIds, store0,
                   index0, lastSet, memo, storeAfterRun1, clientVars,
                   storageVars, agentVars, auxVars>>

\* Mutant: summarize_textrank without its try/except.
EnrichEnds_TextrankRaises(fs) ==
    IF "textrank_summary" \in fs THEN "crashed" ELSE "embed"

\* How the five producer calls end when the producers in fs fail: every
\* producer catches its exceptions, so the row goes on.
EnrichEnds(fs) == "embed"

\* "Run ALL NLP Tools": the five producer calls for the row; fs: the
\* producers that fail.
RunNlpTools(fs) ==
    /\ ipc = "enrich"
    /\ ForcedFailures(modelsLoaded, spacyLoaded) \subseteq fs
    /\ IF run = 2
          THEN fs = memo[DocId].failed /\ UNCHANGED faults
          ELSE LET n == Cardinality(fs \ ForcedFailures(modelsLoaded, spacyLoaded))
               IN faults + n <= MaxFaults /\ faults' = faults + n
    /\ cur' = RunProducers(DocId, fs)
    /\ failed' = fs
    /\ rowCalls' = [op \in RowOps |-> IF op \in Producers THEN 1 ELSE 0]
    /\ ipc' = EnrichEnds(fs)
    /\ UNCHANGED <<pool, nSamples, mode, run, sample, row, embedding, setCalls,
                   upsertCalls, writtenIds, upsertedIds, skippedIds, store0,
                   index0, lastSet, memo, storeAfterRun1, clientVars,
                   storageVars, agentVars, auxVars>>

\* Mutant: the except branch of the embedding without its continue.
AfterEmbedding_NoContinue(ok) == "store"

\* Mutant: the embedding asked for again when it failed.
AfterEmbedding_Retry(ok) == IF ok THEN "store" ELSE "embed"

\* "Create Vector Embedding": the try/except; on failure, continue.
AfterEmbedding(ok) == IF ok THEN "store" ELSE "continue"

CreateEmbedding(ok) ==
    /\ ipc = "embed"
    /\ ok => modelsLoaded
    /\ IF run = 2
          THEN ok = memo[DocId].embedded /\ UNCHANGED faults
          ELSE IF ok \/ ~modelsLoaded
                  THEN UNCHANGED faults
                  ELSE faults < MaxFaults /\ faults' = faults + 1
    /\ memo' = IF mode = "twice" /\ run = 1
                  THEN (DocId :> [failed |-> failed, embedded |-> ok]) @@ memo
                  ELSE memo
    /\ skippedIds' = IF ok THEN skippedIds ELSE skippedIds \cup {DocId}
    /\ rowCalls' = Issue(rowCalls, "get_embeddings", modelsLoaded)
    /\ IF AfterEmbedding(ok) = "store"
          THEN /\ ipc' = "store"
               /\ embedding' = IF ok THEN Val("embedding", DocId) ELSE NoValue
               /\ UNCHANGED <<row, cur, failed>>
          ELSE IF AfterEmbedding(ok) = "continue"
                  THEN NextRow
                  ELSE /\ ipc' = AfterEmbedding(ok)
                       /\ UNCHANGED <<row, cur, failed, embedding>>
    /\ UNCHANGED <<pool, nSamples, mode, run, sample, setCalls, upsertCalls,
                   writtenIds, upsertedIds, store0, index0, lastSet,
                   storeAfterRun1, clientVars, storageVars, agentVars, auxVars>>

\* Mutant: the document created under a generated key (collection.add).
StoreKey_AutoId(doc_id, st) == MaxId + Cardinality(DOMAIN st) + 1

\* db.collection(...).document(doc_id): the key of the document is the id.
StoreKey(doc_id, st) == doc_id

\* Mutant: set(..., merge=True): an empty mapping leaves the stored mapping.
SetValue_Merge(st, key, rec) ==
    IF key \in DOMAIN st
       THEN [f \in DOMAIN rec |->
                IF rec[f] = EmptyMap /\ f \in DOMAIN st[key] THEN st[key][f] ELSE rec[f]]
       ELSE rec

\* firestore_doc_ref.set(rec): the document becomes rec, whatever it was.
SetValue(st, key, rec) == rec

\* The document store after document(key).set(rec).
DocumentSet(st, key, rec) == (key :> SetValue(st, key, rec)) @@ st

\* Mutant: the set() in a try/except that logs, the row going on.
AfterStore_CaughtAndLogged(ok) == "upsert"

\* How the store stage ends: set() is in no try, so its exception leaves the
\* loop and run_pipeline.
AfterStore(ok) == IF ok THEN "upsert" ELSE "crashed"

\* "Store Comprehensive Results in Firestore": not in any try.
StoreRecord(ok) ==
    /\ ipc = "store"
    /\ ok => dbLoaded
    /\ IF ok \/ ~dbLoaded
          THEN UNCHANGED faults
          ELSE faults < MaxFaults /\ faults' = faults + 1
    /\ setCalls' = setCalls + (IF dbLoaded THEN 1 ELSE 0)
    /\ rowCalls' = Issue(rowCalls, "set", dbLoaded)
    /\ IF ok
          THEN LET rec == BuildRecord(DocId, cur) IN
               /\ store' = DocumentSet(store, StoreKey(DocId, store), rec)
               /\ lastSet' = (DocId :> rec) @@ lastSet
               /\ writtenIds' = writtenIds \cup {DocId}
          ELSE UNCHANGED <<store, lastSet, writtenIds>>
    /\ IF AfterStore(ok) = "upsert"
          THEN ipc' = "upsert" /\ UNCHANGED <<row, cur, failed, embedding>>
          ELSE Crash
    /\ UNCHANGED <<pool, nSamples, mode, run, sample, upsertCalls, upsertedIds,
                   skippedIds, store0, index0, memo, storeAfterRun1, clientVars,
                   index, agentVars, auxVars>>

\* Mutant: my_index.upsert_datapoints called outside any try and without the
\* test of index_endpoint.
AfterUpsert_Uncaught(ok) == IF ok THEN "continue" ELSE "crashed"

\* How the upsert stage ends: the except branch and the else branch only log,
\* and the loop goes on.
AfterUpsert(ok) == "continue"

\* "Upsert Vector to Vector Search": if index_endpoint, the try/except
\* around my_index.upsert_datapoints; else a warning.
UpsertVector(ok) ==
    /\ ipc = "upsert"
    /\ ok => indexLoaded
    /\ IF ok \/ ~indexLoaded
          THEN UNCHANGED faults
          ELSE faults < MaxFaults /\ faults' = faults + 1
    /\ upsertCalls' = upsertCalls + (IF indexLoaded THEN 1 ELSE 0)
    /\ rowCalls' = Issue(rowCalls, "upsert_datapoints", indexLoaded)
    /\ index' = IF ok THEN index \cup {DocId} ELSE index
    /\ upsertedIds' = IF ok THEN upsertedIds \cup {DocId} ELSE upsertedIds
    /\ IF AfterUpsert(ok) = "continue" THEN NextRow ELSE Crash
    /\ UNCHANGED <<pool, nSamples, mode, run, sample, setCalls, writtenIds,
                   skippedIds, store0, index0, lastSet, memo, storeAfterRun1,
                   clientVars, store, agentVars, auxVars>>

\* python src/main.py is run again with the same arguments on the same source.
Rerun ==
    /\ mode = "twice"
    /\ run = 1
    /\ ipc = "done"
    /\ run' = 2
    /\ ipc' = "start"
    /\ row' = 1
    /\ setCalls' = 0
    /\ upsertCalls' = 0
    /\ writtenIds' = {}
    /\ upsertedIds' = {}
    /\ skippedIds' = {}
    /\ store0' = store
    /\ index0' = index
    /\ storeAfterRun1' = store
    /\ UNCHANGED <<rowCalls, pool, nSamples, mode, sample, cur, failed, embedding, faults,
                   lastSet, memo, clientVars, storageVars, agentVars, auxVars>>

\* The failures in a: those a client that is not loaded forces are not counted.
RowFaults(a) ==
    Cardinality(a.failed \ ForcedFailures(modelsLoaded, spacyLoaded))
    + (IF modelsLoaded /\ ~a.embed_ok THEN 1 ELSE 0)
    + (IF dbLoaded /\ ~a.set_ok THEN 1 ELSE 0)
    + (IF indexLoaded /\ ~a.upsert_ok THEN 1 ELSE 0)

\* How the external calls for one article end when they depend on the
\* article only: the producers that fail, and whether the embedding, the set
\* and the upsert succeed.  A call on a client that is not loaded fails.
RowAnswers ==
    {a \in [failed : SUBSET Producers, embed_ok : BOOLEAN, set_ok : BOOLEAN,
            upsert_ok : BOOLEAN] :
        /\ ForcedFailures(modelsLoaded, spacyLoaded) \subseteq a.failed
        /\ a.embed_ok => modelsLoaded
        /\ a.set_ok => dbLoaded
        /\ a.upsert_ok => indexLoaded
        /\ RowFaults(a) <= MaxFaults}

\* One run of the pipeline, the calls for each article ending as rowSvc says.
OrderNext ==
    \/ /\ ipc = "start"
       /\ \E out \in LoadAndSampleData(pool, nSamples) : RunPipelineLoad(TRUE, out)
    \/ ipc = "enrich" /\ RunNlpTools(rowSvc[DocId].failed)
    \/ ipc = "embed" /\ CreateEmbedding(rowSvc[DocId].embed_ok)
    \/ ipc = "store" /\ StoreRecord(rowSvc[DocId].set_ok)
    \/ ipc = "upsert" /\ UpsertVector(rowSvc[DocId].upsert_ok)

IngestNext ==
    \/ /\ ipc = "start"
       /\ \E dl \in BOOLEAN, out \in LoadAndSampleData(pool, nSamples) :
             RunPipelineLoad(dl, out)
    \/ /\ ipc = "enrich"
       /\ \E fs \in SUBSET Producers : RunNlpTools(fs)
    \/ \E ok \in BOOLEAN : CreateEmbedding(ok)
    \/ \E ok \in BOOLEAN : StoreRecord(ok)
    \/ \E ok \in BOOLEAN : UpsertVector(ok)

RerunNext == IngestNext \/ Rerun

(***************************************************************************)
(* The specifications.                                                     *)
(***************************************************************************)

\* A single caller of answer(), and services that answer as they like.
AuxIdle ==
    /\ peer = << >>
    /\ svc = << >>
    /\ smp = << >>
    /\ rowSvc = << >>

ClientsInit ==
    /\ dbLoaded \in BOOLEAN
    /\ modelsLoaded \in BOOLEAN
    /\ indexLoaded \in BOOLEAN
    /\ spacyLoaded \in BOOLEAN

\* The agent answering queries over a store and an index that ingestion left.
AgentSpecInit ==
    /\ ClientsInit
    /\ spacyLoaded
    /\ store \in AgentStores
    /\ index \in SUBSET Ids
    /\ AgentInit
    /\ IngestIdle
    /\ AuxIdle

AgentSpec == AgentSpecInit /\ [][AgentNext]_vars

\* Two callers of answer() over one store (one article stored) and one index
\* (which also holds an id the store lacks), every client loaded.
ConcurrentSpecInit ==
    /\ dbLoaded = TRUE
    /\ modelsLoaded = TRUE
    /\ indexLoaded = TRUE
    /\ spacyLoaded = TRUE
    /\ store = (1 :> FullRecord(1))
    /\ index = {1, MaxId}
    /\ AgentInit
    /\ IngestIdle
    /\ peer = NewCaller
    /\ svc \in [Queries -> ServiceAnswers(index, store)]
    /\ smp = << >>
    /\ rowSvc = << >>

ConcurrentSpec == ConcurrentSpecInit /\ [][ConcurrentNext]_vars

\* One run of the ingestion pipeline.
IngestSpecInit ==
    /\ ClientsInit
    /\ store \in IngestStores
    /\ index = DOMAIN store
    /\ AgentInit
    /\ IngestInit("single")
    /\ AuxIdle

IngestSpec == IngestSpecInit /\ [][IngestNext]_vars

\* One of the two programs is run over the deployment: the agent
\* (python src/agent.py; the pipeline is idle) or the ingestion pipeline
\* (python src/main.py; the agent is at its prompt).
ProgramsInit ==
    /\ ClientsInit
    /\ store \in IngestStores
    /\ index = DOMAIN store
    /\ AgentInit
    /\ IngestIdle \/ IngestInit("single")
    /\ AuxIdle

ProgramsNext ==
    \/ ipc = "idle" /\ AgentNext
    \/ ipc # "idle" /\ IngestNext

ProgramsSpec == ProgramsInit /\ [][ProgramsNext]_vars

\* The sampler called twice with the same arguments on a source, with or
\* without a bound on the words.
SamplerSpecInit ==
    /\ dbLoaded = TRUE
    /\ modelsLoaded = TRUE
    /\ indexLoaded = TRUE
    /\ spacyLoaded = TRUE
    /\ store = << >>
    /\ index = {}
    /\ AgentInit
    /\ pool \in [Ids -> WordCounts]
    /\ nSamples \in 0..(MaxId + 1)
    /\ mode = "single"
    /\ run = 1
    /\ ipc = "idle"
    /\ sample = <<>>
    /\ row = 1
    /\ cur = NoCur
    /\ failed = {}
    /\ embedding = NoValue
    /\ faults = 0
    /\ setCalls = 0
    /\ upsertCalls = 0
    /\ writtenIds = {}
    /\ upsertedIds = {}
    /\ skippedIds = {}
    /\ store0 = store
    /\ index0 = index
    /\ lastSet = store
    /\ memo = << >>
    /\ storeAfterRun1 = << >>
    /\ rowCalls = NoCalls
    /\ peer = << >>
    /\ svc = << >>
    /\ rowSvc = << >>
    /\ smp \in [max_words : {<<>>, <<MaxWords>>}, dl : BOOLEAN,
                 rng : [RngStates -> RowOrders], out : {<<>>}]

SamplerSpec == SamplerSpecInit /\ [][SamplerCall]_vars

\* One run over a sample in any order, every document passing the word
\* filter, the external calls ending for each article in one fixed way.
OrderSpecInit ==
    /\ ClientsInit
    /\ pool = [id \in Ids |-> MaxWords - 1]
    /\ store \in IngestStores
    /\ index = DOMAIN store
    /\ AgentInit
    /\ IngestInit("single")
    /\ peer = << >>
    /\ svc = << >>
    /\ smp = << >>
    /\ rowSvc \in [Ids -> RowAnswers]
    /\ LET Sum[S \in SUBSET Ids] ==
               IF S = {} THEN 0
               ELSE LET id == CHOOSE x \in S : TRUE
                    IN RowFaults(rowSvc[id]) + Sum[S \ {id}]
       IN faults + Sum[Ids] <= MaxFaults

OrderSpec == OrderSpecInit /\ [][OrderNext]_vars

\* Two runs of the ingestion pipeline over the same sample, the producers
\* answering in the second run as they did in the first.  Every document of
\* the source passes the word filter here (IngestSpec covers the filter).
RerunSpecInit ==
    /\ ClientsInit
    /\ pool = [id \in Ids |-> MaxWords - 1]
    /\ store \in IngestStores
    /\ index = DOMAIN store
    /\ AgentInit
    /\ IngestInit("twice")
    /\ AuxIdle

RerunSpec == RerunSpecInit /\ [][RerunNext]_vars

(***************************************************************************)
(* Properties of the agent (checked under AgentSpec).                      *)
(***************************************************************************)

\* Tool 1 returned its list of ids in this query.
RetrievalYielded == searchCalls = 1 /\ raisedAt # "find_neighbors" /\ pc # "search"

\* Tool 2 went through all the ids and returned in this query.
ContextAssembled ==
    /\ RetrievalYielded
    /\ article_ids # <<>>
    /\ pc \notin {"context", "lookup"}
    /\ raisedAt \notin {"db.collection", "document.get", "KeyboardInterrupt"}

\* The ids of the entries of a context bundle, in order.
BundleIds(bundle) == [j \in 1..Len(bundle) |-> bundle[j].id]

\* C1: answer(query) never throws: whatever the collaborators do, no
\* exception leaves answer().
C1_AnswerNeverThrows == outcome # "raised"

\* C2: when retrieval yields zero ids, answer() has returned the fixed
\* "could not find any relevant news articles" message, and the query made
\* no call to the document store and none to the generative model.
C2_EmptyRetrievalMessage ==
    (RetrievalYielded /\ article_ids = <<>>) =>
        /\ outcome = "returned"
        /\ result = MsgNoArticles
        /\ storeCalls = 0
        /\ genCalls = 0
        /\ genOutcome = "none"

C2_Witness ==
    /\ RetrievalYielded
    /\ article_ids = <<>>
    /\ result = MsgNoArticles
    /\ store # << >>

\* C3: when retrieval yields a non-empty list of ids none of which is in the
\* document store, the generative model is never called, and once the
\* lookups are done answer() has returned the fixed "unable to retrieve
\* their content" message.
C3_AllMissingMessage ==
    (/\ RetrievalYielded
     /\ article_ids # <<>>
     /\ \A j \in 1..Len(article_ids) : ~DocExists(store, article_ids[j])) =>
        /\ genCalls = 0
        /\ genOutcome = "none"
        /\ outcome = "returned" => result = MsgNoContent
        /\ ContextAssembled => outcome = "returned"

C3_Witness ==
    /\ ContextAssembled
    /\ Len(article_ids) = TopK
    /\ \A j \in 1..Len(article_ids) : ~DocExists(store, article_ids[j])
    /\ result = MsgNoContent
    /\ storeCalls = TopK + 1

\* C4: whenever the generative model fails (generate_content raises, reading
\* response.text raises, or the model is None), the synthesizer has returned
\* the fixed fallback string and answer() ended by returning it, not by an
\* exception.
C4_SynthesizerFallback ==
    (genOutcome \notin {"none", "ok"}) =>
        /\ outcome = "returned"
        /\ result = MsgGenError
        /\ raisedAt = "none"

C4_Witness ==
    /\ genOutcome = "text_raises"
    /\ genCalls = 1
    /\ result = MsgGenError

\* C5: the ids of the assembled context are the ids looked up so far that
\* exist in the document store, in input order, duplicates kept; so when the
\* loop is over the context is the order-preserving subsequence of
\* article_ids that the store holds, and it is never longer than article_ids.
C5_ContextIsFilteredSubsequence ==
    LET Present(id) == DocExists(store, id)
        looked == SubSeq(article_ids, 1, cursor - 1)
    IN /\ cursor \in 1..(Len(article_ids) + 1)
       /\ BundleIds(context) = SelectSeq(looked, Present)
       /\ Len(context) <= Len(article_ids)
       /\ ContextAssembled =>
             BundleIds(context) = SelectSeq(article_ids, Present)

\* The spec's example: ids [A, B, C] with only A and C stored give [A, C];
\* and a duplicated id gives a duplicated entry.
C5_Witness ==
    /\ ContextAssembled
    /\ article_ids = <<1, 2, 1>>
    /\ DOMAIN store = {1}
    /\ BundleIds(context) = <<1, 1>>

\* The stages of one query, in the order answer() goes through them.
PcRank(p) ==
    CASE p = "input" -> 0
      [] p = "embed" -> 1
      [] p = "search" -> 2
      [] p = "context" -> 3
      [] p = "lookup" -> 4
      [] p = "synth" -> 5
      [] p \in {"returned", "raised"} -> 6
      [] OTHER -> 7

C14_ForwardStep ==
    /\ pc \in InAnswer => PcRank(pc') >= PcRank(pc)
    /\ (pc' = "embed" /\ pc # "embed") => pc = "input"
    /\ (pc' = "search" /\ pc # "search") => pc = "embed"
    /\ (pc' = "context" /\ pc # "context") => pc = "search"
    /\ (pc' = "lookup" /\ pc # "lookup") => pc = "context"
    /\ (pc' = "synth" /\ pc # "synth") => (pc = "lookup" /\ context' # <<>>)
    /\ (pc = "synth" /\ pc' \notin {"synth", "interrupted"}) =>
          /\ pc' = "returned"
          /\ genOutcome' # "none"
          /\ genCalls' = genCalls + (IF modelsLoaded THEN 1 ELSE 0)

C14_OnePass ==
    /\ embedCalls <= 1 /\ searchCalls <= 1 /\ genCalls <= 1
    /\ pc = "synth" => (context # <<>> /\ genOutcome = "none" /\ genCalls = 0)
    /\ genOutcome # "none" =>
          /\ context # <<>>
          /\ embedCalls = 1 /\ searchCalls = 1
          /\ genCalls = (IF modelsLoaded THEN 1 ELSE 0)
          /\ outcome = "returned"
          /\ result = (IF genOutcome = "ok" THEN GeneratedText ELSE MsgGenError)

\* C14: one query is one forward pass: the retriever, the context assembler
\* and the synthesizer are each entered at most once per query and only in
\* that order (no stage is re-entered and none is entered from any stage but
\* the one before it); the synthesizer is entered only with a non-empty
\* context; it makes its one call of the generative model (none is possible
\* when the model is None: the attempt raises inside the try); and answer()
\* then returns the synthesizer's text, the model's output or the fallback.
C14_StrictlyForwardPass == [](C14_OnePass) /\ [][C14_ForwardStep]_vars

C14_Witness ==
    /\ pc = "returned"
    /\ genOutcome = "ok"
    /\ genCalls = 1
    /\ result = GeneratedText
    /\ Len(context) = 2
    /\ Len(article_ids) = TopK

\* C16: when the retriever returns, it has computed one embedding and issued
\* one nearest-neighbour lookup asking for exactly top_k neighbours, and the
\* ids it returns are the ids of the neighbours the index answered, one for
\* one and in the index's rank order (nothing re-ordered, dropped or
\* deduplicated); so they are at most top_k, and may be none.
C16_RetrieverReturnsIndexOrder ==
    RetrievalYielded =>
        /\ embedCalls = 1
        /\ searchCalls = 1
        /\ response.num_neighbors = TopK
        /\ Len(response.lists) = 1
        /\ Len(article_ids) = Len(response.lists[1])
        /\ \A j \in 1..Len(article_ids) :
              /\ article_ids[j] = response.lists[1][j].id
              /\ response.lists[1][j].distance = j
        /\ Len(article_ids) <= TopK

\* top_k neighbours, not in id order and with a repeated id, returned as answered.
C16_Witness ==
    /\ RetrievalYielded
    /\ Len(article_ids) = TopK
    /\ article_ids[1] = MaxId
    /\ article_ids[2] = 1
    /\ article_ids[3] = MaxId

C20_NoBlankAnswered ==
    pc \in InAnswer => (query = line /\ Strip(query) # "")

C20_LoopStep ==
    \* a line is handed to answer() only if it is not blank, and the loop
    \* says goodbye exactly on quit / exit in any case
    /\ (pc = "input" /\ pc' \notin {"input", "interrupted"}) =>
          /\ Strip(line') # ""
          /\ pc' \in {"embed", "goodbye"}
          /\ pc' = "goodbye" <=> Lower(line') \in {"quit", "exit"}
          /\ pc' = "embed" => query' = line'
    /\ (pc = "input" /\ pc' = "input" /\ line' # line) => Strip(line') = ""
    \* the loop is left from the prompt by a command, or by an interrupt
    /\ (pc' = "goodbye" /\ pc # "goodbye") => pc = "input"
    /\ pc \in {"goodbye", "interrupted"} => pc' = pc
    \* an exception of answer() is reported and the prompt comes back
    /\ (pc = "raised" /\ pc' # "raised") => pc' \in {"input", "interrupted"}
    /\ (pc = "returned" /\ pc' # "returned") => pc' \in {"input", "interrupted"}

\* C20: the interactive loop never hands a blank (whitespace-only) line to
\* answer(); it ends only at the prompt on 'quit' or 'exit' in any case, or
\* on a keyboard interrupt / end of input; and after any other exception
\* raised while answering it goes back to the prompt.
C20_LoopSkipsBlankAndSurvivesErrors == [](C20_NoBlankAnswered) /\ [][C20_LoopStep]_vars

\* After an exception of answer() the prompt came back and a whitespace-only
\* line was read and skipped.
C20_Witness ==
    /\ pc = "input"
    /\ outcome = "raised"
    /\ raisedAt = "find_neighbors"
    /\ line = "   "
    /\ query = "Who won?"

(***************************************************************************)
(* Properties of the ingestion pipeline (checked under IngestSpec, and     *)
(* under RerunSpec for the second run).                                    *)
(***************************************************************************)

\* The record a pass over document id must leave when the producers in fs
\* failed and the others succeeded, field by field.
ExpectedRecord(id, fs) ==
    [gcs_uri |-> Val("gs://bucket/xsum/train.jsonl", 0),
     document_id_in_file |-> Val("doc_id", id),
     reference_summary |-> Val("summary", id),
     gemini_summary |->
        IF "gemini_summary" \in fs THEN EmptyStr ELSE Val("gemini_summary", id),
     textrank_summary |->
        IF "textrank_summary" \in fs THEN EmptyStr ELSE Val("textrank_summary", id),
     vertex_ai_extraction |->
        IF "vertex_ai_extraction" \in fs THEN EmptyMap ELSE Val("vertex_ai_extraction", id),
     nl_api_entities |->
        IF "nl_api_entities" \in fs THEN EmptyList
        ELSE [kind |-> "formatted", of |-> id, rev |-> "current"],
     spacy_entities |->
        IF "spacy_entities" \in fs THEN EmptyList
        ELSE [kind |-> "formatted", of |-> id, rev |-> "current"]]

\* Document id is in st1 exactly as it is in st2.
SameDocument(st1, st2, id) ==
    /\ id \in DOMAIN st1 <=> id \in DOMAIN st2
    /\ id \in DOMAIN st1 => st1[id] = st2[id]

\* C6: if the word-count filter leaves fewer rows than args.samples, the run
\* aborts at the loading stage and has performed no document-store write and
\* no vector-index upsert: both stores are as the run found them.
C6_SmallPoolAbortsBeforeWrites ==
    (Cardinality(Filtered(pool)) < nSamples /\ ipc # "start") =>
        /\ ipc = "aborted"
        /\ setCalls = 0
        /\ upsertCalls = 0
        /\ writtenIds = {}
        /\ upsertedIds = {}
        /\ store = store0
        /\ index = index0

\* A pool one row short of the request (the spec's 999 of 1000), the download
\* having succeeded.
C6_Witness ==
    /\ ipc = "aborted"
    /\ Filtered(pool) # {}
    /\ Cardinality(Filtered(pool)) = nSamples - 1
    /\ faults = 0

C7_SkippedUntouched ==
    \A id \in skippedIds :
        /\ id \notin writtenIds
        /\ id \notin upsertedIds
        /\ SameDocument(store, store0, id)
        /\ id \in index <=> id \in index0
        /\ ipc \in {"store", "upsert"} => DocId # id

C7_SkipGoesOn ==
    (ipc = "embed" /\ skippedIds' # skippedIds) =>
        /\ row < Len(sample) => (ipc' = "enrich" /\ row' = row + 1)
        /\ row = Len(sample) => ipc' = "done"
        /\ setCalls' = setCalls
        /\ upsertCalls' = upsertCalls
        /\ store' = store
        /\ index' = index

\* C7: when the embedding call fails for a row the row is skipped: no
\* document-store write and no vector upsert is made for its id in this run,
\* the record stored under that id (if any) stays as it was, and the loop
\* goes on with the next sampled row (or ends after the last).
C7_EmbeddingFailureSkipsRow == [](C7_SkippedUntouched) /\ [][C7_SkipGoesOn]_vars

C7_Witness ==
    /\ modelsLoaded
    /\ ipc = "enrich"
    /\ row = 2
    /\ skippedIds = {sample[1]}
    /\ sample[1] \in DOMAIN store
    /\ setCalls = 0

C8_FieldsDefaulted ==
    /\ ipc \in {"embed", "store", "upsert"} =>
          \A p \in Producers :
             cur[p] = IF p \in failed THEN ProducerDefault(p) ELSE Val(p, DocId)
    /\ ipc = "upsert" =>
          /\ DocId \in DOMAIN store
          /\ store[DocId] = ExpectedRecord(DocId, failed)

C8_RowGoesOn ==
    /\ ipc = "enrich" => ipc' = "embed"
    /\ (ipc = "embed" /\ embedding' # NoValue) => ipc' = "store"
    /\ (ipc = "store" /\ ipc' # "crashed") =>
          /\ ipc' = "upsert"
          /\ store'[DocId] = ExpectedRecord(DocId, failed)

\* C8: when enrichment producers fail for a row, each failed field takes its
\* empty default ("" / {} / []), the row goes on to the embedding, and when
\* the embedding succeeds the record handed to the document store holds the
\* defaults for the failed fields and the produced values for the others.
C8_ProducerFailureDegradesField == [](C8_FieldsDefaulted) /\ [][C8_RowGoesOn]_vars

C8_Witness ==
    /\ ipc = "upsert"
    /\ modelsLoaded /\ spacyLoaded
    /\ failed = {"vertex_ai_extraction"}
    /\ store[DocId].vertex_ai_extraction = EmptyMap
    /\ store[DocId].gemini_summary = Val("gemini_summary", DocId)
    /\ store[DocId].spacy_entities # EmptyList

\* A record that reflects one enrichment pass: the earlier pass's record, or
\* the record of a pass of this run for some set of failed producers.
OnePass(id, rec) ==
    \/ rec = OldRecord(id)
    \/ \E fs \in SUBSET Producers : rec = ExpectedRecord(id, fs)

C9_StoredRecordsWhole ==
    \A id \in DOMAIN store :
        /\ DOMAIN store[id] = RecordFields
        /\ store[id] = lastSet[id]
        /\ OnePass(id, store[id])

C9_WriteReplacesWhole ==
    (store' # store) =>
        /\ ipc = "store"
        /\ embedding # NoValue
        /\ \A p \in Producers : cur[p] # NoValue
        /\ DOMAIN store' = DOMAIN store \cup {DocId}
        /\ store'[DocId] = BuildRecord(DocId, cur)
        /\ \A id \in DOMAIN store \ {DocId} : store'[id] = store[id]

\* C9: no partial or merged record is ever stored: every stored record has
\* all its fields and is exactly the dictionary of the latest set() for its
\* id, so it reflects one pass; the store changes only by a set() issued
\* after the row's embedding and all its enrichment fields were produced, and
\* that set() replaces the whole record of that id and nothing else.
C9_NoPartialOrMergedRecord == [](C9_StoredRecordsWhole) /\ [][C9_WriteReplacesWhole]_vars

\* A re-ingested id: the earlier pass's record replaced by this pass's, whose
\* extraction failed.
C9_Witness ==
    \E id \in writtenIds :
        /\ id \in DOMAIN store0
        /\ store0[id] = OldRecord(id)
        /\ store[id] = ExpectedRecord(id, {"vertex_ai_extraction"})

\* C10: with deterministic producers, a second run over the same sample
\* leaves the document store, at every step of the second run, exactly as
\* the first run left it: same keys (article ids only), same record per key.
C10_RerunIdempotent ==
    run = 2 =>
        /\ store = storeAfterRun1
        /\ DOMAIN store \subseteq Ids

\* The second run is over and it wrote again two rows the first run wrote.
C10_Witness ==
    /\ run = 2
    /\ ipc = "done"
    /\ Cardinality(writtenIds) = 2
    /\ setCalls = 2
    /\ \E id \in writtenIds : memo[id].failed # {}


\* The rows of the sample the loop has not reached when the run is over.
RowsNotReached == {sample[j] : j \in (row + 1)..Len(sample)}

\* C11: a failure at any stage of one row (producer, embedding, store write,
\* index upsert) costs at most that row: no exception leaves the loop, so the
\* run goes on with the remaining sampled rows, and the records written for
\* earlier rows stay as they were written.
C11_RowFailureCostsOnlyThatRow ==
    /\ ipc # "crashed"
    /\ ipc \in {"done", "crashed"} => RowsNotReached = {}
    /\ \A id \in writtenIds : id \in DOMAIN store /\ store[id] = lastSet[id]


C12_RecordStays ==
    /\ \A id \in writtenIds : id \in DOMAIN store /\ store[id] = lastSet[id]
    /\ ipc = "upsert" =>
          /\ DocId \in writtenIds
          /\ store[DocId] = BuildRecord(DocId, cur)

C12_UpsertGoesOn ==
    (ipc = "upsert") =>
        /\ store' = store
        /\ index' \in {index, index \cup {DocId}}
        /\ ~indexLoaded => (index' = index /\ upsertCalls' = upsertCalls)
        /\ row < Len(sample) => (ipc' = "enrich" /\ row' = row + 1)
        /\ row = Len(sample) => ipc' = "done"

\* C12: when the vector index is not initialised, or its upsert fails, the
\* row is not failed: its record was written before the upsert stage and
\* stays in the document store as written, the upsert stage changes nothing
\* but (on success) the index entry of the row, and the loop goes on with
\* the next row (or ends after the last).
C12_IndexFailureKeepsRow == [](C12_RecordStays) /\ [][C12_UpsertGoesOn]_vars

\* The upsert of the first row failed on a connected index: the record is
\* stored, the id is not in the index, and the loop is at the second row.
C12_Witness ==
    /\ indexLoaded
    /\ ipc = "enrich"
    /\ row = 2
    /\ upsertCalls = 1
    /\ sample[1] \in writtenIds
    /\ sample[1] \notin index
    /\ store[sample[1]] = lastSet[sample[1]]


(***************************************************************************)
(* Properties of concurrent callers (checked under ConcurrentSpec).        *)
(***************************************************************************)

\* What answer(q) gives when it runs alone against the store, the index and
\* the services' answers for q.
AnswerAlone(q) ==
    LET a == svc[q]
        Raised == [how |-> "raised", text |-> ""]
        Returned(t) == [how |-> "returned", text |-> t]
    IN IF ~(modelsLoaded /\ a.embed_ok) \/ ~(indexLoaded /\ a.search_ok)
          THEN Raised
          ELSE IF a.neighbors = <<>>
                  THEN Returned(MsgNoArticles)
                  ELSE IF ~dbLoaded
                          THEN Raised
                          ELSE IF \A j \in 1..Len(a.neighbors) :
                                      ~DocExists(store, a.neighbors[j])
                                  THEN Returned(MsgNoContent)
                                  ELSE IF a.gen = "ok"
                                          THEN Returned(GeneratedText)
                                          ELSE Returned(MsgGenError)

\* The two callers.
Callers == {Locals, peer}

C13_ResultAsAlone ==
    \A t \in Callers :
        /\ t.outcome # "none" =>
              [how |-> t.outcome, text |-> t.result] = AnswerAlone(t.query)
        /\ t.pc \in {"context", "lookup", "synth"} =>
              t.article_ids = svc[t.query].neighbors

C13_NoWrite == store' = store /\ index' = index

\* C13: the agent is read-only and keeps no state between calls: no step of
\* a query changes the document store or the vector index, and with two
\* callers interleaved in any way, each calling answer() again and again,
\* every call ends as the same query ends when run alone against the same
\* store, index and service answers.
C13_AgentReadOnlyAndIsolated == [](C13_ResultAsAlone) /\ [][C13_NoWrite]_vars

\* Both callers are inside answer() at once, on different queries with
\* different retrieved ids, one with a context entry and one without.
C13_Witness ==
    /\ pc = "lookup"
    /\ peer.pc = "lookup"
    /\ query # peer.query
    /\ article_ids # peer.article_ids
    /\ cursor = 2
    /\ peer.context # <<>>
    /\ context = <<>>


C19_NoDrift ==
    /\ index \subseteq DOMAIN store
    /\ upsertedIds \subseteq writtenIds
    /\ ipc = "upsert" => (DocId \in writtenIds /\ DocId \in DOMAIN store)

C19_UpsertAfterWrite ==
    (index' # index \/ upsertCalls' # upsertCalls) =>
        /\ ipc = "upsert"
        /\ rowCalls["set"] = 1
        /\ DocId \in writtenIds
        /\ DocId \in DOMAIN store
        /\ index' \in {index, index \cup {DocId}}

\* C19: ingestion never introduces index-without-store drift: the upsert for
\* an id is issued only after the set() for that id has completed in the
\* same row, so, the run having started with every indexed id stored, every
\* id in the vector index has a record in the document store in every
\* reachable state.  (A stored record may lack a vector.)
C19_NoIndexWithoutStore == [](C19_NoDrift) /\ [][C19_UpsertAfterWrite]_vars

\* A run over, from empty stores: one id stored and indexed, another stored
\* without a vector.
C19_Witness ==
    /\ ipc = "done"
    /\ store0 = << >>
    /\ \E id \in upsertedIds : id \in index /\ id \in DOMAIN store
    /\ \E id \in writtenIds : id \notin index

(***************************************************************************)
(* Properties of both programs (checked under ProgramsSpec).               *)
(***************************************************************************)

C15_AtMostOnce ==
    \* one query: embed, nearest-neighbour lookup, generate
    /\ embedCalls <= 1
    /\ searchCalls <= 1
    /\ genCalls <= 1
    \* one query: db.collection once, then one get per id occurrence reached
    /\ storeCalls <= cursor + (IF raisedAt = "document.get" THEN 1 ELSE 0)
    /\ storeCalls <= 1 + Len(article_ids)
    \* one row: each producer, the embedding, the set, the upsert
    /\ \A op \in RowOps : rowCalls[op] <= 1
    /\ setCalls <= row
    /\ upsertCalls <= row

C15_StageLeft ==
    /\ (ipc \in {"enrich", "embed", "store", "upsert"}) => <<row', ipc'>> # <<row, ipc>>
    /\ (pc \in {"embed", "search", "context", "synth"}) => pc' # pc
    /\ (pc = "lookup") => (pc' # pc \/ cursor' = cursor + 1)

\* C15: no external call is re-attempted.  Within one query the embedding,
\* the nearest-neighbour lookup and the generation are issued at most once
\* and the store is asked once per id occurrence; within one row of a run
\* each producer, the embedding, the set and the upsert are issued at most
\* once; and every step leaves the stage it was in (to the next stage, the
\* next row, a return or an exception), whether its call succeeded or not.
C15_NoRetry == [](C15_AtMostOnce) /\ [][C15_StageLeft]_vars

\* A row whose embedding was asked for once, failed, and was left for the
\* next row without a write.
C15_Witness ==
    /\ modelsLoaded
    /\ ipc = "enrich"
    /\ row = 2
    /\ sample[1] \in skippedIds
    /\ rowCalls["get_embeddings"] = 1
    /\ rowCalls["set"] = 0


(***************************************************************************)
(* Properties of the sampler (checked under SamplerSpec).                  *)
(***************************************************************************)

\* The rows the word bound leaves, stated from the arguments.
Eligible ==
    {id \in Ids : smp.max_words = <<>> \/ pool[id] < smp.max_words[1]}

C17_OneCall(o) ==
    \* sizes: exactly n_samples rows when the pool has that many, the error
    \* only when it has strictly fewer
    /\ smp.dl =>
          /\ o.raised \in {"no", "ValueError"}
          /\ o.raised = "ValueError" <=> Cardinality(Eligible) < nSamples
          /\ o.raised = "no" => Len(o.rows) = nSamples
    /\ ~smp.dl => o.raised = "download"
    /\ o.raised # "no" => o.rows = <<>>
    \* rows: distinct rows of the source, each under the bound when one is given
    /\ \A a, b \in 1..Len(o.rows) : a # b => o.rows[a] # o.rows[b]
    /\ \A a \in 1..Len(o.rows) :
          /\ o.rows[a] \in DOMAIN pool
          /\ smp.max_words # <<>> => pool[o.rows[a]] < smp.max_words[1]
    \* the samples run_pipeline may be handed are among these
    /\ (smp.dl /\ smp.max_words = <<MaxWords>>) =>
          [raised |-> o.raised # "no", rows |-> o.rows] \in LoadAndSampleData(pool, nSamples)

\* C17: the sampler returns exactly n_samples rows whenever the filtered pool
\* has at least n_samples rows (a pool of exactly n_samples succeeds) and
\* raises its error only when the pool is strictly smaller; the rows returned
\* are distinct rows of the source, each with strictly fewer than max_words
\* words when a bound is given; and a second call with the same source,
\* n_samples, bound and seed returns the same sample.
C17_SamplerContract ==
    smp # << >> =>
        /\ \A c \in 1..Len(smp.out) : C17_OneCall(smp.out[c])
        /\ \A c, d \in 1..Len(smp.out) : smp.out[c] = smp.out[d]

\* Two calls on a pool that the bound leaves with exactly n_samples rows, a
\* row of exactly max_words words being left out, and a process-wide
\* generator that would have ordered the rows otherwise.
C17_Witness ==
    /\ smp # << >>
    /\ Len(smp.out) = 2
    /\ smp.max_words = <<MaxWords>>
    /\ nSamples >= 1
    /\ Cardinality(Eligible) = nSamples
    /\ \E id \in Ids : pool[id] = MaxWords
    /\ smp.out[2].raised = "no"
    /\ Len(smp.out[2].rows) = nSamples
    /\ smp.rng[1] # smp.rng[2]


(***************************************************************************)
(* Properties of the order of the rows (checked under OrderSpec).          *)
(***************************************************************************)

\* The elements of S in ascending order.
RECURSIVE Ascending(_)
Ascending(S) ==
    IF S = {}
       THEN <<>>
       ELSE LET m == CHOOSE x \in S : \A y \in S : x <= y
            IN <<m>> \o Ascending(S \ {m})

\* What the for loop of run_pipeline leaves when it goes through the rows in
\* the order given, from the store st and the index ix.
RECURSIVE RunRows(_, _, _)
RunRows(order, st, ix) ==
    IF order = <<>>
       THEN [store |-> st, index |-> ix]
       ELSE LET id == Head(order)
                a == rowSvc[id]
            IN IF ~a.embed_ok
                  THEN RunRows(Tail(order), st, ix)
                  ELSE IF AfterStore(a.set_ok) = "crashed"
                          THEN [store |-> st, index |-> ix]
                          ELSE RunRows(
                                 Tail(order),
                                 IF a.set_ok
                                    THEN DocumentSet(st, StoreKey(id, st),
                                           BuildRecord(id, RunProducers(id, a.failed)))
                                    ELSE st,
                                 IF a.upsert_ok THEN ix \cup {id} ELSE ix)

\* C18: the order of the rows is irrelevant: when a run over a sample of
\* distinct ids is over, the external calls having ended for each article in
\* one fixed way, the document store and the vector index hold what the run
\* over the same rows in ascending order of id leaves.
C18_RowOrderIrrelevant ==
    (rowSvc # << >> /\ ipc \in {"done", "crashed"}) =>
        LET r == RunRows(Ascending({sample[j] : j \in 1..Len(sample)}), store0, index0)
        IN store = r.store /\ index = r.index


=============================================================================
